---- MODULE Spec2Model ----
(***************************************************************************)
(* Digital-Ecology-Sensing-Network: the file hand-off between the Recorder *)
(* (modules/audio_recording.py), the Classifier Poller with its embedded   *)
(* ledger writer (birdnet_analyzer.py) and the ledger CSV.                 *)
(*                                                                         *)
(* A recordings path is the name YYYYMMDD_HHMMSS.wav, kept as the tuple    *)
(* <<day, HH, MM, SS>>; Files are the names of a few consecutive seconds   *)
(* around a minute boundary.                                               *)
(***************************************************************************)
EXTENDS Integers, Sequences, FiniteSets, TLC

\* ---------------------------------------------------------------- bounds

\* Distinct recording names (seconds) the Recorder can produce.
NumFiles == 2
\* Recorder flushes (save_wav_file calls) in one behaviour.
MaxSaves == 2
\* Poller process restarts in one behaviour.
MaxRestarts == 1
\* Longest detection list the classifier returns to a polling Poller.
MaxPollDet == 2
\* Longest detection list handed to update_ledger on its own.
MaxDet == 3

\* Chunks the Recorder captures in one behaviour.
MaxChunks == 4
\* Longest time (in ticks) between two time.time() calls of the Recorder loop.
MaxElapsed == 2
\* Largest configured BUFFER_SIZE.
MaxBufferSize == 3
\* Most lines of the ledger beside the Image Fetcher.
MaxLedger == 4
\* Polls of the Image Fetcher in one behaviour.
MaxPolls == 3
\* Most pages in one answer of the image search.
MaxPages == 2
\* Requests the dashboard receives in one behaviour.
MaxRequests == 2
\* Longest module list of a request.
MaxSelected == 2
\* docker-compose up executions of run_docker_compose in one behaviour.
MaxUps == 2
\* POST /api/build requests the build-status dashboard receives in one
\* behaviour.
MaxBuildRequests == 4
\* Clock resolution: every time and duration is counted in ticks of
\* 1/TicksPerSecond s.
TicksPerSecond == 2

\* The time time.time() returns at the start of whole second s.
Sec(s) == s * TicksPerSecond

\* Seconds (POSIX, since the start of day 0) whose names the Recorder can
\* produce in the hand-off specifications.
Seconds == {58 + k : k \in 1..NumFiles}

\* The machine's time zone: daylight saving time (UTC+1h) ends at DstEnd,
\* the local clock is set back one hour and the zone is UTC from then on.
DstEnd == Sec(2 * 3600)
utcoffset(ts) == IF ts < DstEnd THEN Sec(3600) ELSE 0

\* datetime.fromtimestamp(ts): the naive local date-time of the POSIX time
\* ts, as a count of local ticks.
fromtimestamp(ts) == ts + utcoffset(ts)

\* strftime('%Y%m%d'), strftime('%H:%M:%S') of a naive local date-time: the
\* part below one second is dropped.
date_str(l) == (l \div TicksPerSecond) \div 86400
time_str(l) ==
    LET sec == l \div TicksPerSecond
    IN  <<(sec % 86400) \div 3600, (sec % 3600) \div 60, sec % 60>>

\* dt.strftime('%Y%m%d_%H%M%S.wav') of the POSIX time ts: the name
\* <<day, HH, MM, SS>> of the local date-time.
format_name(ts) ==
    <<date_str(fromtimestamp(ts))>> \o time_str(fromtimestamp(ts))

\* datetime.strptime(name, '%Y%m%d_%H%M%S') succeeds.
WellFormed(n) == n[2] \in 0..23 /\ n[3] \in 0..59 /\ n[4] \in 0..59

\* datetime.strptime(name, '%Y%m%d_%H%M%S'): the naive local date-time, a
\* whole second.
strptime(n) == Sec(n[1] * 86400 + n[2] * 3600 + n[3] * 60 + n[4])

\* dt.timestamp() of a naive local date-time: the POSIX time; of a local
\* time that occurs twice (the hour after DstEnd) the first occurrence.
name_timestamp(n) ==
    IF strptime(n) - Sec(3600) < DstEnd
    THEN strptime(n) - Sec(3600)
    ELSE strptime(n)

\* Mutant of parse_timestamp: the wall clock always.
parse_timestamp_wall_clock(n, clock) == clock

\* Mutant of parse_timestamp: no fallback to the wall clock.
parse_timestamp_no_fallback(n, clock) == name_timestamp(n)

\* process_wav_file, the try/except around strptime: the timestamp parsed
\* from the name, time.time() when the name does not parse.
parse_timestamp(n, clock) ==
    IF WellFormed(n) THEN name_timestamp(n) ELSE clock

Files == {format_name(Sec(t)) : t \in Seconds}
FirstFile == format_name(Sec(59))

\* A recording named 23:59:58, and a .wav file whose name is no timestamp.
MidnightFile == format_name(Sec(86398))
StrayFile == <<0, 0, 0, 99>>

\* POSIX seconds at which the Recorder of SpecRecorder is started: in
\* daylight saving time, and in the hour after its end.
StartSeconds == {59, 2 * 3600 + 59}
RecorderSeconds ==
    UNION {s..(s + (MaxChunks * MaxElapsed) \div TicksPerSecond + 1) : s \in StartSeconds}

\* Every path of the recordings folder.
Paths == Files \cup {format_name(Sec(t)) : t \in RecorderSeconds}
               \cup {MidnightFile, StrayFile}

\* Poller processes; Spec runs the first alone, SpecWriters runs both.
PollerIds == {1, 2}

\* Scientific names a detection may carry ("" is the missing/empty name,
\* detection.get('scientific_name', '')).
SciNames == {"", "Turdus migratorius", "Corvus corax"}
PollSciNames == {"", "Turdus migratorius"}

Detection(s) == [scientific_name |-> s]

SeqsUpTo(S, n) == UNION {[1..k -> S] : k \in 0..n}

\* recording.detections as the classifier may return it.
DetLists == SeqsUpTo({Detection(s) : s \in SciNames}, MaxDet)
PollDetLists == SeqsUpTo({Detection(s) : s \in PollSciNames}, MaxPollDet)

VARIABLES
    dir,              \* recordings directory: path -> "absent" | "partial" | "complete"
    rec_pc,           \* Recorder: "record" (capturing) | "save" (inside save_wav_file)
    rec_file,         \* path the Recorder has open for writing
    saves,            \* completed save_wav_file calls
    wav_data,         \* content of each recording: the chunks written to it
    audio_buffer,     \* Recorder: the buffered chunks
    timestamps,       \* Recorder: the time.time() stored with each buffered chunk
    chunks,           \* Recorder: chunks captured so far (chunk k is the k-th)
    now,              \* the wall clock, in ticks
    last_payload,     \* history: payload of the previous flush
    CHUNK_DURATION,   \* config: length of a chunk (seconds, here in ticks)
    BUFFER_SIZE,      \* config: chunks per recording
    ledgerExists,     \* os.path.isfile(LEDGER_FILE)
    ledger,           \* lines of the ledger CSV
    pc,               \* Poller position, per process
    files,            \* Poller: paths of the current listing not yet iterated
    processed_files,  \* Poller: the process-local set of claimed paths
    wav_file,         \* Poller: path being processed
    timestamp,        \* Poller: process_wav_file's timestamp
    detections,       \* Poller: classifier output for wav_file
    classifier,       \* the detection lists the external classifier may return
    file_exists,      \* update_ledger's local, sampled before the lock
    csv_lock,         \* the process's threading.Lock: held or not
    restarts,         \* Poller restarts so far
    life,             \* per process: number of this process lifetime
    procCount,        \* history: process_wav_file calls per path in this lifetime
    readState,        \* history: state of wav_file when the classifier read it
    ledgerDone,       \* history: update_ledger returned for wav_file
    removeErr,        \* history: the last os.remove raised (and was caught)
    fetcher_pc,       \* Image Fetcher: "start" | "poll" (in monitor_ledger) | "exited"
    last_processed_scientific_name,  \* Image Fetcher: monitor_ledger's local
    image,            \* CURRENT_BIRD_IMAGE: the species whose image the file holds
    conn_checks,      \* history: calls of check_internet_connection
    polls,            \* history: iterations of the monitor_ledger loop
    issued,           \* history: name the last iteration called the fetch for
    saved,            \* history: the last fetch wrote the image file
    raised,           \* history: the last iteration caught an exception
    modules_config,   \* dashboard: config["modules"], module -> its "available" entry
    compose_file,     \* log/current-docker-compose.yml: its content
    h_pc,             \* dashboard request handler (thread): its position
    h_kind,           \* handler: "build" | "run", the endpoint of its request
    selected_modules, \* handler: the module list of its request
    compose_config,   \* handler: the manifest it generated
    overwritten,      \* handler: another handler wrote the file this one has open
    requests,         \* history: requests received so far
    last_request,     \* history: module list of the request received last
    config_data,      \* docker_composer: config/module_config.yaml as loaded
    generated_file,   \* log/docker-compose.generated.yml: its content
    status_file,      \* log/system_status_var.json: its content
    up_runs,          \* history: docker-compose up executions
    last_call,        \* history: "none" | "build" | "run", the function called last
    build_status,     \* build-status dashboard: the global build_status dict
    b_pc,             \* build-status dashboard: position of a build request and its worker
    b_requests,       \* history: POST /api/build requests received
    b_rejected        \* history: requests answered "Build already in progress"

vars == <<dir, rec_pc, rec_file, saves, wav_data, audio_buffer, timestamps,
          chunks, now, last_payload, CHUNK_DURATION, BUFFER_SIZE,
          ledgerExists, ledger, pc, files,
          processed_files, wav_file, timestamp, detections, classifier,
          file_exists, csv_lock,
          restarts, life, procCount, readState, ledgerDone, removeErr,
          fetcher_pc, last_processed_scientific_name, image, conn_checks,
          polls, issued, saved, raised,
          modules_config, compose_file, h_pc, h_kind, selected_modules,
          compose_config, overwritten, requests, last_request,
          config_data, generated_file, status_file, up_runs, last_call,
          build_status, b_pc, b_requests, b_rejected>>

buildVars == <<build_status, b_pc, b_requests, b_rejected>>

composerVars == <<config_data, generated_file, status_file, up_runs,
                  last_call>>
dashVars == <<modules_config, compose_file, h_pc, h_kind, selected_modules,
              compose_config, overwritten, requests, last_request>>
fetchVars == <<fetcher_pc, last_processed_scientific_name, image, conn_checks,
               polls, issued, saved, raised>>
cfgVars == <<classifier, CHUNK_DURATION, BUFFER_SIZE>>
bufVars == <<audio_buffer, timestamps, chunks, now>>
recVars == <<rec_pc, rec_file, saves, wav_data, last_payload, cfgVars, bufVars,
             fetchVars, dashVars, composerVars, buildVars>>
histVars == <<procCount, readState, ledgerDone, removeErr>>
pollVars == <<pc, files, processed_files, wav_file, timestamp, detections,
              file_exists, csv_lock, restarts, life>>

\* ---------------------------------------------------------------- ledger

Header == [kind |-> "header", date |-> 0, start_Time |-> <<>>,
           end_Time |-> <<>>, scientific_name |-> ""]

IsRow(line) == line.kind = "row"
IsHeader(line) == line.kind = "header"

\* One writer.writerow.  date_obj = datetime.fromtimestamp(timestamp), the
\* end time is date_obj + timedelta(seconds=CHUNK_DURATION * BUFFER_SIZE);
\* scientific_name comes from the detection.
Row(ts, detection) ==
    LET date_obj == fromtimestamp(ts)
        end_time == date_obj + CHUNK_DURATION * BUFFER_SIZE
    IN  [kind |-> "row",
         date |-> date_str(date_obj),
         start_Time |-> time_str(date_obj),
         end_Time |-> time_str(end_time),
         scientific_name |-> detection.scientific_name]

\* Mutant of WriteRows: the loop without its break.
RECURSIVE WriteRowsNoBreak(_, _)
WriteRowsNoBreak(dets, ts) ==
    IF dets = <<>> THEN <<>>
    ELSE <<Row(ts, Head(dets))>> \o WriteRowsNoBreak(Tail(dets), ts)

\* The for loop of update_ledger: write a row for each detection, break
\* after writing one whose scientific_name is truthy.
RECURSIVE WriteRows(_, _)
WriteRows(dets, ts) ==
    IF dets = <<>> THEN <<>>
    ELSE IF Head(dets).scientific_name # ""
         THEN <<Row(ts, Head(dets))>>
         ELSE <<Row(ts, Head(dets))>> \o WriteRows(Tail(dets), ts)

\* Mutant of update_ledger: the header written on every append.
update_ledger_header_always(dets, ts, exists) ==
    <<Header>> \o WriteRows(dets, ts)

\* What one update_ledger call appends to the ledger file.
update_ledger(dets, ts, exists) ==
    (IF ~exists THEN <<Header>> ELSE <<>>) \o WriteRows(dets, ts)

\* ---------------------------------------------------------------- init

PollerInit ==
    /\ pc = [p \in PollerIds |-> "poll"]
    /\ files = [p \in PollerIds |-> {}]
    /\ processed_files = [p \in PollerIds |-> {}]
    /\ wav_file = [p \in PollerIds |-> FirstFile]
    /\ timestamp = [p \in PollerIds |-> 0]
    /\ detections = [p \in PollerIds |-> <<>>]
    /\ file_exists = [p \in PollerIds |-> FALSE]
    /\ csv_lock = [p \in PollerIds |-> FALSE]
    /\ restarts = 0
    /\ life = [p \in PollerIds |-> 0]
    /\ procCount = [p \in PollerIds |-> [f \in Paths |-> 0]]
    /\ readState = [p \in PollerIds |-> "complete"]
    /\ ledgerDone = [p \in PollerIds |-> FALSE]
    /\ removeErr = [p \in PollerIds |-> FALSE]

\* Python's None.
None == "None"

\* The Image Fetcher before main() has run; no image file yet.
FetcherInit ==
    /\ fetcher_pc = "start"
    /\ last_processed_scientific_name = None
    /\ image = None
    /\ conn_checks = 0
    /\ polls = 0
    /\ issued = None
    /\ saved = FALSE
    /\ raised = FALSE

\* Module names a request or the configuration may carry.
Modules == {"birdnet", "recorder"}

\* Threads of the Flask server that handle requests at the same time.
Handlers == {1, 2}

\* The module lists a request may carry, duplicates included.
RECURSIVE SeqsOfLen(_, _)
SeqsOfLen(S, n) ==
    IF n = 0 THEN {<<>>}
    ELSE {<<x>> \o q : x \in S, q \in SeqsOfLen(S, n - 1)}

ModuleLists == UNION {SeqsOfLen(Modules, n) : n \in 0..MaxSelected}

\* config["modules"]: a module's "available" entry, "true" or "false", or
\* "missing" when the module (or its "available" key) is not configured.
ModuleConfigs == [Modules -> {"true", "false", "missing"}]

\* A compose document: the dict generate_compose returns.
ComposeDict(services) == [version |-> "3.8", services |-> services]

\* Content of log/current-docker-compose.yml: "absent", "empty" (opened
\* for writing, nothing written yet), "written" (the YAML of doc), or
\* "garbled" (a shorter document written over the head of a longer one).
ComposeFile(state, doc) == [state |-> state, doc |-> doc]

NoComposeFile == ComposeFile("absent", ComposeDict({}))

\* The dashboard with no request in flight and no manifest written yet.
DashboardIdle ==
    /\ compose_file = NoComposeFile
    /\ h_pc = [h \in Handlers |-> "idle"]
    /\ h_kind = [h \in Handlers |-> "build"]
    /\ selected_modules = [h \in Handlers |-> <<>>]
    /\ compose_config = [h \in Handlers |-> ComposeDict({})]
    /\ overwritten = [h \in Handlers |-> FALSE]
    /\ requests = 0
    /\ last_request = <<>>

\* The dashboard of the specifications that send it no request.
DashboardInit ==
    /\ DashboardIdle
    /\ modules_config = [m \in Modules |-> "true"]

\* Spellings of a machine type in the configuration, and str.lower() of
\* each.
MachineTypes == {"pi", "PI"}
SystemTypes == {"pi", "Pi", "mac-m"}
lower(s) ==
    CASE s \in {"pi", "Pi", "PI"} -> "pi"
      [] s \in {"mac-m", "Mac-M"} -> "mac-m"
      [] OTHER -> s

\* A module's entry in config["modules"]; available and using are FALSE
\* when the key is missing.
ModuleInfos == [system_type : SystemTypes, available : BOOLEAN, using : BOOLEAN]

\* config/module_config.yaml as yaml.safe_load returns it.
ConfigDatas == [MACHINE_TYPE : MachineTypes, modules : [Modules -> ModuleInfos]]

\* Content of log/system_status_var.json: "absent", "invalid" (no JSON
\* document, as a file opened for writing and never dumped into), or
\* "json", the object with the four keys.
StatusFile(state, build, build_date, run, run_date) ==
    [state |-> state, build |-> build, build_date |-> build_date,
     run |-> run, run_date |-> run_date]

NoStatusFile == StatusFile("absent", FALSE, "", FALSE, "")
InvalidStatusFile == StatusFile("invalid", FALSE, "", FALSE, "")

\* A status file written by hand that records no build.
UnbuiltStatusFile == StatusFile("json", FALSE, "", FALSE, "NOT RUN")

\* docker_composer never called: no manifest, no status file.
ComposerIdle ==
    /\ generated_file = NoComposeFile
    /\ status_file = NoStatusFile
    /\ up_runs = 0
    /\ last_call = "none"

\* The docker_composer of the specifications that do not call it.
ComposerInit ==
    /\ ComposerIdle
    /\ config_data = [MACHINE_TYPE |-> "pi",
                      modules |-> [m \in Modules |->
                          [system_type |-> "pi", available |-> TRUE,
                           using |-> TRUE]]]

\* The build-status dashboard as imported: build_status = {"last_built":
\* None, "build_in_progress": False}, no request yet.
BuildStatusInit ==
    /\ build_status = [last_built |-> None, build_in_progress |-> FALSE]
    /\ b_pc = [h \in Handlers |-> "idle"]
    /\ b_requests = 0
    /\ b_rejected = 0

\* The Recorder at the top of its loop, audio_buffer = [], timestamps = [].
RecorderIdle ==
    /\ rec_pc = "record"
    /\ rec_file = FirstFile
    /\ saves = 0
    /\ wav_data = [f \in Paths |-> <<>>]
    /\ audio_buffer = <<>>
    /\ timestamps = <<>>
    /\ chunks = 0
    /\ last_payload = <<>>

\* The Recorder of the hand-off specifications; the configuration of 5
\* chunks of 3 seconds per recording.
RecorderInit ==
    /\ RecorderIdle
    /\ now = Sec(59)
    /\ CHUNK_DURATION = Sec(3)
    /\ BUFFER_SIZE = 5

\* A fresh installation: empty recordings folder, no ledger file.
Init ==
    /\ dir = [f \in Paths |-> "absent"]
    /\ ledgerExists = FALSE
    /\ ledger = <<>>
    /\ classifier = PollDetLists
    /\ RecorderInit
    /\ FetcherInit
    /\ BuildStatusInit
    /\ ComposerInit
    /\ DashboardInit
    /\ PollerInit

\* ---------------------------------------------------------------- Recorder

\* save_wav_file, wave.open(filename, 'wb'): the file is created (or
\* truncated) at its final name before any frame is written.  The name is
\* formatted second of the earliest buffered chunk, an input here.
SaveOpen ==
    /\ rec_pc = "record"
    /\ saves < MaxSaves
    /\ \E f \in Files :
        /\ dir' = [dir EXCEPT ![f] = "partial"]
        /\ rec_file' = f
    /\ rec_pc' = "save"
    /\ wav_data' = [f \in Paths |-> IF f = rec_file' THEN <<>> ELSE wav_data[f]]
    /\ UNCHANGED <<saves, last_payload, cfgVars, dashVars, buildVars, composerVars, fetchVars, bufVars, ledgerExists, ledger,
                   pc, files, processed_files, wav_file, timestamp, detections, file_exists, csv_lock, restarts,
                   life, histVars>>

\* record_audio: the k-th chunk captured, an array of frames (one frame
\* stands for the chunk's frames).
Chunk(k) == <<k>>

\* np.concatenate(audio_buffer).
RECURSIVE np_concatenate(_)
np_concatenate(buf) ==
    IF buf = <<>> THEN <<>> ELSE Head(buf) \o np_concatenate(Tail(buf))

\* Mutant of KeepLast: pop() in place of pop(0).
KeepLastPopNewest(buf, size) ==
    IF Len(buf) > size THEN SubSeq(buf, 1, Len(buf) - 1) ELSE buf

\* if len(audio_buffer) > BUFFER_SIZE: audio_buffer.pop(0), and the same
\* for timestamps.
KeepLast(buf, size) == IF Len(buf) > size THEN Tail(buf) ELSE buf

\* Mutant of start_timestamp: the newest chunk's time.
start_timestamp_newest(tss) == tss[Len(tss)]

\* start_timestamp = timestamps[0].
start_timestamp(tss) == tss[1]

\* if len(audio_buffer) == BUFFER_SIZE, after the append and the eviction.
Flushes(buf) == Len(buf) = BUFFER_SIZE

\* One iteration of the Recorder loop up to wave.open: record_audio blocks
\* for the chunk (the time elapsed since the previous time.time() is at
\* least CHUNK_DURATION), the chunk and time.time() are appended, the oldest
\* entry is evicted from an over-full buffer, and with a full buffer
\* save_wav_file opens the file named after the earliest buffered time.
RecordChunk ==
    /\ rec_pc = "record"
    /\ chunks < MaxChunks
    /\ \E elapsed \in CHUNK_DURATION..MaxElapsed :
          LET buf == KeepLast(Append(audio_buffer, Chunk(chunks + 1)), BUFFER_SIZE)
              tss == KeepLast(Append(timestamps, now + elapsed), BUFFER_SIZE)
              filename == format_name(start_timestamp(tss))
          IN  /\ now' = now + elapsed
              /\ chunks' = chunks + 1
              /\ audio_buffer' = buf
              /\ timestamps' = tss
              /\ IF Flushes(buf)
                 THEN /\ rec_pc' = "save"
                      /\ rec_file' = filename
                      /\ dir' = [dir EXCEPT ![filename] = "partial"]
                      /\ wav_data' = [wav_data EXCEPT ![filename] = <<>>]
                 ELSE UNCHANGED <<rec_pc, rec_file, dir, wav_data>>
    /\ UNCHANGED <<saves, last_payload, cfgVars, dashVars, buildVars, composerVars, fetchVars, ledgerExists, ledger, pc,
                   files, processed_files, wav_file, timestamp, detections,
                   file_exists, csv_lock, restarts, life, histVars>>

\* Mutant of SaveClose: the buffers are cleared after the flush.
SaveCloseClear ==
    /\ rec_pc = "save"
    /\ dir' = IF dir[rec_file] = "partial"
              THEN [dir EXCEPT ![rec_file] = "complete"]
              ELSE dir
    /\ rec_pc' = "record"
    /\ saves' = saves + 1
    /\ wav_data' = IF dir[rec_file] = "partial"
                   THEN [wav_data EXCEPT ![rec_file] = np_concatenate(audio_buffer)]
                   ELSE wav_data
    /\ last_payload' = np_concatenate(audio_buffer)
    /\ audio_buffer' = <<>>
    /\ timestamps' = <<>>
    /\ UNCHANGED <<rec_file, cfgVars, dashVars, buildVars, composerVars, fetchVars, chunks, now, ledgerExists, ledger, pc,
                   files, processed_files, wav_file, timestamp, detections,
                   file_exists, csv_lock, restarts, life, histVars>>

\* save_wav_file, writeframes(combined_audio) and the close of the with
\* block: the file is complete.  A path unlinked meanwhile stays unlinked.
\* The buffers are left as they are.
SaveClose ==
    /\ rec_pc = "save"
    /\ dir' = IF dir[rec_file] = "partial"
              THEN [dir EXCEPT ![rec_file] = "complete"]
              ELSE dir
    /\ rec_pc' = "record"
    /\ saves' = saves + 1
    /\ wav_data' = IF dir[rec_file] = "partial"
                   THEN [wav_data EXCEPT ![rec_file] = np_concatenate(audio_buffer)]
                   ELSE wav_data
    /\ last_payload' = np_concatenate(audio_buffer)
    /\ UNCHANGED <<rec_file, cfgVars, dashVars, buildVars, composerVars, fetchVars, bufVars, ledgerExists, ledger, pc, files,
                   processed_files, wav_file, timestamp, detections, file_exists, csv_lock, restarts,
                   life, histVars>>

\* ---------------------------------------------------------------- Poller

\* Statement order of process_wav_file and of the update_ledger it calls:
\* analyze_recording, isfile, lock+open, write+close, os.remove, then back
\* in monitor_recordings_folder processed_files.add.
process_wav_file_next(at) ==
    CASE at = "analyze" -> "ledger_check"
      [] at = "ledger_check" -> "ledger_open"
      [] at = "ledger_open" -> "ledger_write"
      [] at = "ledger_write" -> "remove"
      [] at = "remove" -> "add"

Processing == {"analyze", "ledger_check", "ledger_open", "ledger_write", "remove"}

\* os.listdir filtered on ".wav": every path that exists, finished or not.
ListDir(p) ==
    /\ pc[p] = "poll"
    /\ files' = [files EXCEPT ![p] = {f \in Paths : dir[f] # "absent"}]
    /\ pc' = [pc EXCEPT ![p] = "loop"]
    /\ UNCHANGED <<dir, recVars, ledgerExists, ledger, processed_files,
                   wav_file, timestamp, detections, file_exists, csv_lock, restarts,
                   life, histVars>>

\* Mutant of ForNext: the membership test dropped.
ForNextNoCheck(p) ==
    /\ pc[p] = "loop"
    /\ IF files[p] = {}
       THEN /\ pc' = [pc EXCEPT ![p] = "poll"]
            /\ UNCHANGED <<files, wav_file, timestamp, procCount, ledgerDone, removeErr>>
       ELSE \E f \in files[p] :
            /\ files' = [files EXCEPT ![p] = files[p] \ {f}]
            /\ wav_file' = [wav_file EXCEPT ![p] = f]
            /\ timestamp' = [timestamp EXCEPT ![p] = parse_timestamp(f, now)]
            /\ pc' = [pc EXCEPT ![p] = "analyze"]
            /\ procCount' = [procCount EXCEPT ![p][f] = @ + 1]
            /\ ledgerDone' = [ledgerDone EXCEPT ![p] = FALSE]
            /\ removeErr' = [removeErr EXCEPT ![p] = FALSE]
    /\ UNCHANGED <<dir, recVars, ledgerExists, ledger, processed_files,
                   detections, file_exists, csv_lock, restarts, life,
                   readState>>

\* Mutant of ForNext: the path claimed before it is processed.
ForNextClaimFirst(p) ==
    /\ pc[p] = "loop"
    /\ IF files[p] = {}
       THEN /\ pc' = [pc EXCEPT ![p] = "poll"]
            /\ UNCHANGED <<files, wav_file, timestamp, procCount, ledgerDone, removeErr,
                           processed_files>>
       ELSE \E f \in files[p] :
            /\ files' = [files EXCEPT ![p] = files[p] \ {f}]
            /\ IF f \notin processed_files[p]
               THEN /\ wav_file' = [wav_file EXCEPT ![p] = f]
                    /\ timestamp' = [timestamp EXCEPT ![p] = parse_timestamp(f, now)]
                    /\ pc' = [pc EXCEPT ![p] = "analyze"]
                    /\ processed_files' =
                          [processed_files EXCEPT ![p] = @ \cup {f}]
                    /\ procCount' = [procCount EXCEPT ![p][f] = @ + 1]
                    /\ ledgerDone' = [ledgerDone EXCEPT ![p] = FALSE]
                    /\ removeErr' = [removeErr EXCEPT ![p] = FALSE]
               ELSE UNCHANGED <<pc, wav_file, timestamp, procCount, ledgerDone,
                                removeErr, processed_files>>
    /\ UNCHANGED <<dir, recVars, ledgerExists, ledger,
                   detections, file_exists, csv_lock, restarts, life,
                   readState>>

\* One iteration of "for wav_file in files": a path already in
\* processed_files is skipped, any other enters process_wav_file; after the
\* last path the loop sleeps and polls again.
ForNext(p) ==
    /\ pc[p] = "loop"
    /\ IF files[p] = {}
       THEN /\ pc' = [pc EXCEPT ![p] = "poll"]
            /\ UNCHANGED <<files, wav_file, timestamp, procCount, ledgerDone, removeErr>>
       ELSE \E f \in files[p] :
            /\ files' = [files EXCEPT ![p] = files[p] \ {f}]
            /\ IF f \notin processed_files[p]
               THEN /\ wav_file' = [wav_file EXCEPT ![p] = f]
                    /\ timestamp' = [timestamp EXCEPT ![p] = parse_timestamp(f, now)]
                    /\ pc' = [pc EXCEPT ![p] = "analyze"]
                    /\ procCount' = [procCount EXCEPT ![p][f] = @ + 1]
                    /\ ledgerDone' = [ledgerDone EXCEPT ![p] = FALSE]
                    /\ removeErr' = [removeErr EXCEPT ![p] = FALSE]
               ELSE UNCHANGED <<pc, wav_file, timestamp, procCount, ledgerDone, removeErr>>
    /\ UNCHANGED <<dir, recVars, ledgerExists, ledger, processed_files,
                   detections, file_exists, csv_lock, restarts, life,
                   readState>>

\* analyze_recording returns recording.detections.  The classifier reads
\* whatever is at the path at that moment.
Analyze(p) ==
    /\ pc[p] = "analyze"
    /\ dir[wav_file[p]] # "absent"
    /\ \E d \in classifier : detections' = [detections EXCEPT ![p] = d]
    /\ readState' = [readState EXCEPT ![p] = dir[wav_file[p]]]
    /\ pc' = [pc EXCEPT ![p] = process_wav_file_next("analyze")]
    /\ UNCHANGED <<dir, recVars, ledgerExists, ledger, files, processed_files,
                   wav_file, timestamp, file_exists, csv_lock, restarts, life,
                   procCount, ledgerDone, removeErr>>

\* Mutant of AnalyzeRaise: the failed path is claimed and deleted.
AnalyzeRaiseClaim(p) ==
    /\ pc[p] = "analyze"
    /\ pc' = [pc EXCEPT ![p] = "crashed"]
    /\ processed_files' = [processed_files EXCEPT ![p] = @ \cup {wav_file[p]}]
    /\ dir' = [dir EXCEPT ![wav_file[p]] = "absent"]
    /\ UNCHANGED <<recVars, ledgerExists, ledger, files,
                   wav_file, timestamp, detections, file_exists, csv_lock, restarts,
                   life, histVars>>

\* analyze_recording raises (always on a missing file, possibly on any):
\* nothing in process_wav_file or the polling loop catches it, the process
\* ends with a traceback.
AnalyzeRaise(p) ==
    /\ pc[p] = "analyze"
    /\ pc' = [pc EXCEPT ![p] = "crashed"]
    /\ UNCHANGED <<dir, recVars, ledgerExists, ledger, files, processed_files,
                   wav_file, timestamp, detections, file_exists, csv_lock, restarts,
                   life, histVars>>

\* update_ledger, file_exists = os.path.isfile(LEDGER_FILE): outside the lock.
LedgerCheck(p) ==
    /\ pc[p] = "ledger_check"
    /\ file_exists' = [file_exists EXCEPT ![p] = ledgerExists]
    /\ pc' = [pc EXCEPT ![p] = process_wav_file_next("ledger_check")]
    /\ UNCHANGED <<dir, recVars, ledgerExists, ledger, files, processed_files,
                   wav_file, timestamp, detections, csv_lock, restarts, life, histVars>>

\* update_ledger, "with csv_lock, open(LEDGER_FILE, 'a')": the process's own
\* lock is taken and the file is created if missing.
LedgerOpen(p) ==
    /\ pc[p] = "ledger_open"
    /\ ~csv_lock[p]
    /\ csv_lock' = [csv_lock EXCEPT ![p] = TRUE]
    /\ ledgerExists' = TRUE
    /\ pc' = [pc EXCEPT ![p] = process_wav_file_next("ledger_open")]
    /\ UNCHANGED <<dir, recVars, ledger, files, processed_files, wav_file, timestamp,
                   detections, file_exists, restarts, life, histVars>>

\* Mutant of LedgerWrite: the lines are put in front of the ledger.
LedgerWriteInFront(p) ==
    /\ pc[p] = "ledger_write"
    /\ ledger' = update_ledger(detections[p], timestamp[p], file_exists[p])
                    \o ledger
    /\ csv_lock' = [csv_lock EXCEPT ![p] = FALSE]
    /\ ledgerDone' = [ledgerDone EXCEPT ![p] = TRUE]
    /\ pc' = [pc EXCEPT ![p] = process_wav_file_next("ledger_write")]
    /\ UNCHANGED <<dir, recVars, ledgerExists, files, processed_files,
                   wav_file, timestamp, detections, file_exists, restarts, life,
                   procCount, readState, removeErr>>

\* update_ledger, the body of the with block and its exit: header and rows
\* go to the buffered csvfile and reach the file when it is closed; the lock
\* is released.
LedgerWrite(p) ==
    /\ pc[p] = "ledger_write"
    /\ ledger' = ledger \o update_ledger(detections[p], timestamp[p],
                                        file_exists[p])
    /\ csv_lock' = [csv_lock EXCEPT ![p] = FALSE]
    /\ ledgerDone' = [ledgerDone EXCEPT ![p] = TRUE]
    /\ pc' = [pc EXCEPT ![p] = process_wav_file_next("ledger_write")]
    /\ UNCHANGED <<dir, recVars, ledgerExists, files, processed_files,
                   wav_file, timestamp, detections, file_exists, restarts, life,
                   procCount, readState, removeErr>>

\* Mutant of Remove: a failing os.remove not caught.
RemoveUncaught(p) ==
    /\ pc[p] = "remove"
    /\ \/ /\ dir[wav_file[p]] # "absent"
          /\ dir' = [dir EXCEPT ![wav_file[p]] = "absent"]
          /\ removeErr' = [removeErr EXCEPT ![p] = FALSE]
          /\ pc' = [pc EXCEPT ![p] = process_wav_file_next("remove")]
       \/ /\ removeErr' = [removeErr EXCEPT ![p] = TRUE]
          /\ pc' = [pc EXCEPT ![p] = "crashed"]
          /\ UNCHANGED dir
    /\ UNCHANGED <<recVars, ledgerExists, ledger, files, processed_files,
                   wav_file, timestamp, detections, file_exists, csv_lock, restarts,
                   life, procCount, readState, ledgerDone>>

\* Mutant of Remove: nothing to delete when there were no detections.
RemoveUnlessEmpty(p) ==
    /\ pc[p] = "remove"
    /\ \/ /\ dir[wav_file[p]] # "absent"
          /\ dir' = IF detections[p] = <<>> THEN dir
                    ELSE [dir EXCEPT ![wav_file[p]] = "absent"]
          /\ removeErr' = [removeErr EXCEPT ![p] = FALSE]
       \/ /\ removeErr' = [removeErr EXCEPT ![p] = TRUE]
          /\ UNCHANGED dir
    /\ pc' = [pc EXCEPT ![p] = process_wav_file_next("remove")]
    /\ UNCHANGED <<recVars, ledgerExists, ledger, files, processed_files,
                   wav_file, timestamp, detections, file_exists, csv_lock, restarts,
                   life, procCount, readState, ledgerDone>>

\* process_wav_file, try: os.remove(wav_file) except Exception: print.
\* The removal succeeds on an existing path, or raises (missing path,
\* permissions, a file held open) and the exception is printed.
Remove(p) ==
    /\ pc[p] = "remove"
    /\ \/ /\ dir[wav_file[p]] # "absent"
          /\ dir' = [dir EXCEPT ![wav_file[p]] = "absent"]
          /\ removeErr' = [removeErr EXCEPT ![p] = FALSE]
       \/ /\ removeErr' = [removeErr EXCEPT ![p] = TRUE]
          /\ UNCHANGED dir
    /\ pc' = [pc EXCEPT ![p] = process_wav_file_next("remove")]
    /\ UNCHANGED <<recVars, ledgerExists, ledger, files, processed_files,
                   wav_file, timestamp, detections, file_exists, csv_lock, restarts,
                   life, procCount, readState, ledgerDone>>

\* monitor_recordings_folder, processed_files.add(wav_file), after
\* process_wav_file has returned (its locals are gone).
Add(p) ==
    /\ pc[p] = "add"
    /\ processed_files' = [processed_files EXCEPT ![p] = @ \cup {wav_file[p]}]
    /\ pc' = [pc EXCEPT ![p] = "loop"]
    /\ detections' = [detections EXCEPT ![p] = <<>>]
    /\ file_exists' = [file_exists EXCEPT ![p] = FALSE]
    /\ readState' = [readState EXCEPT ![p] = "complete"]
    /\ UNCHANGED <<dir, recVars, ledgerExists, ledger, files, wav_file, timestamp,
                   csv_lock, restarts, life, procCount, ledgerDone, removeErr>>

\* Mutant of Restart: the claimed set survives the restart.
RestartKeepsClaims(p) ==
    /\ restarts < MaxRestarts
    /\ restarts' = restarts + 1
    /\ life' = [life EXCEPT ![p] = @ + 1]
    /\ pc' = [pc EXCEPT ![p] = "poll"]
    /\ files' = [files EXCEPT ![p] = {}]
    /\ csv_lock' = [csv_lock EXCEPT ![p] = FALSE]
    /\ detections' = [detections EXCEPT ![p] = <<>>]
    /\ file_exists' = [file_exists EXCEPT ![p] = FALSE]
    /\ procCount' = [procCount EXCEPT ![p] = [f \in Paths |-> 0]]
    /\ ledgerDone' = [ledgerDone EXCEPT ![p] = FALSE]
    /\ removeErr' = [removeErr EXCEPT ![p] = FALSE]
    /\ UNCHANGED <<dir, recVars, ledgerExists, ledger, processed_files,
                   wav_file, timestamp, readState>>

\* The process is killed or has crashed, and is started again: main() runs
\* monitor_recordings_folder with processed_files = set(); every local and
\* the lock are those of a new process.  The ledger and the recordings
\* folder are what the old process left.
Restart(p) ==
    /\ restarts < MaxRestarts
    /\ restarts' = restarts + 1
    /\ life' = [life EXCEPT ![p] = @ + 1]
    /\ pc' = [pc EXCEPT ![p] = "poll"]
    /\ files' = [files EXCEPT ![p] = {}]
    /\ processed_files' = [processed_files EXCEPT ![p] = {}]
    /\ csv_lock' = [csv_lock EXCEPT ![p] = FALSE]
    /\ detections' = [detections EXCEPT ![p] = <<>>]
    /\ file_exists' = [file_exists EXCEPT ![p] = FALSE]
    /\ procCount' = [procCount EXCEPT ![p] = [f \in Paths |-> 0]]
    /\ ledgerDone' = [ledgerDone EXCEPT ![p] = FALSE]
    /\ removeErr' = [removeErr EXCEPT ![p] = FALSE]
    /\ UNCHANGED <<dir, recVars, ledgerExists, ledger, wav_file, timestamp, readState>>

Poller(p) ==
    \/ ListDir(p)
    \/ ForNext(p)
    \/ Analyze(p)
    \/ AnalyzeRaise(p)
    \/ LedgerCheck(p)
    \/ LedgerOpen(p)
    \/ LedgerWrite(p)
    \/ Remove(p)
    \/ Add(p)

\* ---------------------------------------------------------------- Image Fetcher

\* csv.DictReader(csvfile), rows = list(reader): the first line gives the
\* field names, the other lines are the rows.
DictReader(lines) == IF lines = <<>> THEN <<>> ELSE Tail(lines)

\* last_row.get("scientific_name", "") for a row read under the field names
\* of the first line: the column named scientific_name exists only when
\* the first line is the header; a header line read as a row holds its own
\* column names.
get_scientific_name(lines, row) ==
    IF IsHeader(Head(lines))
    THEN IF IsHeader(row) THEN "scientific_name" ELSE row.scientific_name
    ELSE ""

\* The answers of the image search: requests.get raises, response.json()
\* raises, or the pages of the query; a page gives a thumburl whose download
\* has status 200 ("ok") or another status ("non200"), gives no thumburl
\* ("nourl"), or is not of the expected shape or its download raises
\* ("malformed").
PageKinds == {"ok", "non200", "nourl", "malformed"}
Responses == {<<"network_error">>, <<"bad_json">>} \cup SeqsUpTo(PageKinds, MaxPages)

\* Mutant of SavePages: the body of a failed download is written as well.
RECURSIVE SavePagesAnyStatus(_, _, _, _)
SavePagesAnyStatus(pages, name, img, wrote) ==
    IF pages = <<>> THEN [image |-> img, saved |-> wrote, raised |-> FALSE]
    ELSE IF Head(pages) \in {"network_error", "bad_json", "malformed"}
         THEN [image |-> img, saved |-> wrote, raised |-> TRUE]
    ELSE IF Head(pages) \in {"ok", "non200"}
         THEN SavePagesAnyStatus(Tail(pages), name, name, wrote \/ Head(pages) = "ok")
    ELSE SavePagesAnyStatus(Tail(pages), name, img, wrote)

\* fetch_and_save_bird_image, the try block: for every page with a thumburl
\* whose download has status 200 the image file is overwritten; an exception
\* ends the loop and is caught.  The result: the content of the image file,
\* whether it was written, whether an exception was caught.
RECURSIVE SavePages(_, _, _, _)
SavePages(pages, name, img, wrote) ==
    IF pages = <<>> THEN [image |-> img, saved |-> wrote, raised |-> FALSE]
    ELSE IF Head(pages) \in {"network_error", "bad_json", "malformed"}
         THEN [image |-> img, saved |-> wrote, raised |-> TRUE]
    ELSE IF Head(pages) = "ok"
         THEN SavePages(Tail(pages), name, name, TRUE)
    ELSE SavePages(Tail(pages), name, img, wrote)

fetch_and_save_bird_image(scientific_name, response) ==
    SavePages(response, scientific_name, image, FALSE)

\* Mutant of CheckConnection: the connection is checked again while polling.
CheckConnectionAgain ==
    /\ fetcher_pc \in {"start", "poll"}
    /\ conn_checks' = conn_checks + 1
    /\ \E connected \in BOOLEAN :
          fetcher_pc' = IF connected THEN "poll" ELSE "exited"
    /\ UNCHANGED <<dir, rec_pc, rec_file, saves, wav_data, last_payload, cfgVars, dashVars, buildVars, composerVars,
                   bufVars, ledgerExists, ledger, pc, files, processed_files,
                   wav_file, timestamp, detections, file_exists, csv_lock,
                   restarts, life, histVars, last_processed_scientific_name,
                   image, polls, issued, saved, raised>>

\* main(): check_internet_connection, once; without a connection main returns.
CheckConnection ==
    /\ fetcher_pc = "start"
    /\ conn_checks' = conn_checks + 1
    /\ \E connected \in BOOLEAN :
          fetcher_pc' = IF connected THEN "poll" ELSE "exited"
    /\ UNCHANGED <<dir, rec_pc, rec_file, saves, wav_data, last_payload, cfgVars, dashVars, buildVars, composerVars,
                   bufVars, ledgerExists, ledger, pc, files, processed_files,
                   wav_file, timestamp, detections, file_exists, csv_lock,
                   restarts, life, histVars, last_processed_scientific_name,
                   image, polls, issued, saved, raised>>

\* Mutant of last_row: the oldest row.
first_row(rows) == rows[1]

\* monitor_ledger, last_row = rows[-1].
last_row(rows) == rows[Len(rows)]

\* monitor_ledger, one iteration of the loop.  Opening or reading the ledger
\* raises (always when the file is missing) and the exception is caught; or
\* the rows are read and, when the last row names a species other than the
\* remembered one, the image is fetched and the name remembered.
MonitorLedger ==
    /\ fetcher_pc = "poll"
    /\ polls < MaxPolls
    /\ polls' = polls + 1
    /\ \/ /\ issued' = None
          /\ saved' = FALSE
          /\ raised' = TRUE
          /\ UNCHANGED <<image, last_processed_scientific_name>>
       \/ /\ ledgerExists
          /\ LET rows == DictReader(ledger)
                 scientific_name ==
                     IF rows = <<>> THEN ""
                     ELSE get_scientific_name(ledger, last_row(rows))
             IN  IF scientific_name # ""
                    /\ scientific_name # last_processed_scientific_name
                 THEN \E response \in Responses :
                        LET r == fetch_and_save_bird_image(scientific_name, response)
                        IN  /\ image' = r.image
                            /\ saved' = r.saved
                            /\ raised' = r.raised
                            /\ issued' = scientific_name
                            /\ last_processed_scientific_name' = scientific_name
                 ELSE /\ issued' = None
                      /\ saved' = FALSE
                      /\ raised' = FALSE
                      /\ UNCHANGED <<image, last_processed_scientific_name>>
    /\ UNCHANGED <<dir, rec_pc, rec_file, saves, wav_data, last_payload, cfgVars, dashVars, buildVars, composerVars,
                   bufVars, ledgerExists, ledger, pc, files, processed_files,
                   wav_file, timestamp, detections, file_exists, csv_lock,
                   restarts, life, histVars, fetcher_pc, conn_checks>>

\* ---------------------------------------------------------------- Dashboard

\* mod_config.get("available", False) of config["modules"].get(mod, {}).
available(mod_name, config) == config[mod_name] = "true"

\* Mutant of generate_services: the "available" entry not consulted.
RECURSIVE generate_services_all(_, _)
generate_services_all(selected, config) ==
    IF selected = <<>> THEN {}
    ELSE {Head(selected)} \cup generate_services_all(Tail(selected), config)

\* The loop of generate_compose: one key of the services dict per selected
\* module whose "available" entry is true.
RECURSIVE generate_services(_, _)
generate_services(selected, config) ==
    IF selected = <<>> THEN {}
    ELSE (IF available(Head(selected), config) THEN {Head(selected)} ELSE {})
         \cup generate_services(Tail(selected), config)

generate_compose(selected, config) ==
    ComposeDict(generate_services(selected, config))

\* The request arrives: request.get_json(), then load_config and
\* generate_compose.  Flask serves every request on a thread of its own.
Receive(h) ==
    /\ h_pc[h] = "idle"
    /\ requests < MaxRequests
    /\ \E kind \in {"build", "run"}, selected \in ModuleLists :
        /\ h_kind' = [h_kind EXCEPT ![h] = kind]
        /\ selected_modules' = [selected_modules EXCEPT ![h] = selected]
        /\ compose_config' =
               [compose_config EXCEPT
                   ![h] = generate_compose(selected, modules_config)]
        /\ last_request' = selected
    /\ h_pc' = [h_pc EXCEPT ![h] = "generated"]
    /\ requests' = requests + 1
    /\ overwritten' = [overwritten EXCEPT ![h] = FALSE]
    /\ UNCHANGED <<modules_config, compose_file>>

\* write_compose_file, open(CURRENT_COMPOSE_FILE, "w"): the file is
\* truncated; no lock is taken.
OpenComposeFile(h) ==
    /\ h_pc[h] = "generated"
    /\ compose_file' = ComposeFile("empty", ComposeDict({}))
    /\ h_pc' = [h_pc EXCEPT ![h] = "opened"]
    /\ UNCHANGED <<modules_config, h_kind, selected_modules, compose_config,
                   overwritten, requests, last_request>>

\* Handler h has the file open and another handler has written a document
\* into it meanwhile that names a service the document of h does not: that
\* document may be the longer one.
MayGarble(h) ==
    /\ overwritten[h]
    /\ compose_file.state \in {"written", "garbled"}
    /\ ~(compose_file.doc.services \subseteq compose_config[h].services)

\* As MayGarble, and the document of h names no service the other does not:
\* the other document is the longer one.
MustGarble(h) ==
    /\ MayGarble(h)
    /\ compose_config[h].services \subseteq compose_file.doc.services

\* write_compose_file, yaml.dump and the close of the file: the document is
\* written from offset 0.  Over a longer document another handler wrote
\* meanwhile it leaves that document's tail.
DumpComposeFile(h) ==
    /\ h_pc[h] = "opened"
    /\ \/ /\ ~MustGarble(h)
          /\ compose_file' = ComposeFile("written", compose_config[h])
       \/ /\ MayGarble(h)
          /\ compose_file' = ComposeFile("garbled", compose_config[h])
    /\ h_pc' = [h_pc EXCEPT ![h] = "written"]
    /\ overwritten' = [g \in Handlers |->
                          IF g # h /\ h_pc[g] = "opened" THEN TRUE
                          ELSE overwritten[g]]
    /\ UNCHANGED <<modules_config, h_kind, selected_modules, compose_config,
                   requests, last_request>>

\* The command lines of build_modules and run_modules.
CURRENT_COMPOSE_FILE == "log/current-docker-compose.yml"
build_cmd(selected) ==
    <<"docker-compose", "-f", CURRENT_COMPOSE_FILE, "build">> \o selected
run_cmd(selected) ==
    <<"docker-compose", "-f", CURRENT_COMPOSE_FILE, "up", "-d">> \o selected

\* The docker-compose command of the request (started on a thread for a
\* build, awaited for a run) and the response; the handler is free again.
Respond(h) ==
    /\ h_pc[h] = "written"
    /\ h_pc' = [h_pc EXCEPT ![h] = "idle"]
    /\ h_kind' = [h_kind EXCEPT ![h] = "build"]
    /\ selected_modules' = [selected_modules EXCEPT ![h] = <<>>]
    /\ compose_config' = [compose_config EXCEPT ![h] = ComposeDict({})]
    /\ UNCHANGED <<modules_config, compose_file, overwritten, requests,
                   last_request>>

\* ---------------------------------------------------------------- docker_composer

\* current_time(): datetime.now().strftime("%Y-%m-%d %H:%M:%S").
current_time(ts) ==
    LET n == format_name(ts)
    IN  ToString(n[1]) \o " " \o ToString(n[2]) \o ":" \o ToString(n[3])
            \o ":" \o ToString(n[4])

\* Mutant of included: the machine type compared as spelled.
included_same_spelling(module_info, machine_type) ==
    /\ module_info.system_type = machine_type
    /\ module_info.available
    /\ module_info.using

\* build_docker_compose, the test of the loop over config["modules"].
included(module_info, machine_type) ==
    /\ lower(module_info.system_type) = lower(machine_type)
    /\ module_info.available
    /\ module_info.using

\* Mutant of BuildDockerCompose: the run recorded in the status file is
\* kept.
BuildKeepsRun ==
    /\ generated_file' =
           ComposeFile("written",
               ComposeDict({m \in Modules :
                   included(config_data.modules[m], config_data.MACHINE_TYPE)}))
    /\ status_file' =
           IF status_file.state = "json"
           THEN StatusFile("json", TRUE, current_time(now), status_file.run,
                           status_file.run_date)
           ELSE StatusFile("json", TRUE, current_time(now), FALSE, "NOT RUN")
    /\ last_call' = "build"
    /\ UNCHANGED <<config_data, up_runs>>

\* build_docker_compose: the manifest is generated from the configuration
\* and written, then the status file is written anew.
BuildDockerCompose ==
    /\ generated_file' =
           ComposeFile("written",
               ComposeDict({m \in Modules :
                   included(config_data.modules[m], config_data.MACHINE_TYPE)}))
    /\ status_file' =
           StatusFile("json", TRUE, current_time(now), FALSE, "NOT RUN")
    /\ last_call' = "build"
    /\ UNCHANGED <<config_data, up_runs>>

\* status_data.get("docker-compose_build", False) of the status file as
\* run_docker_compose reads it; status_data is {} when json.load fails.
build_recorded(status) == status.state = "json" /\ status.build

\* Mutant of RunDockerCompose: the build flag not consulted.
RunDockerComposeUnchecked ==
    /\ up_runs < MaxUps
    /\ status_file.state # "absent"
    /\ status_file' = StatusFile("json", build_recorded(status_file),
                                 status_file.build_date, TRUE,
                                 current_time(now))
    /\ up_runs' = up_runs + 1
    /\ last_call' = "run"
    /\ UNCHANGED <<config_data, generated_file>>

\* run_docker_compose.  It returns at once when the status file is missing
\* or records no build.  Otherwise it writes the run into the status file,
\* returns when the manifest is missing, and executes docker-compose up,
\* which Popen may fail to start.
RunDockerCompose ==
    /\ up_runs < MaxUps
    /\ IF ~build_recorded(status_file)
       THEN UNCHANGED <<status_file, up_runs>>
       ELSE /\ status_file' = [status_file EXCEPT
                                  !.run = TRUE,
                                  !.run_date = current_time(now)]
            /\ IF generated_file.state = "absent"
               THEN UNCHANGED up_runs
               ELSE \E started \in BOOLEAN :
                       up_runs' = IF started THEN up_runs + 1 ELSE up_runs
    /\ last_call' = "run"
    /\ UNCHANGED <<config_data, generated_file>>

\* ---------------------------------------------------------------- build-status dashboard

\* build_modules, the test of build_status["build_in_progress"]: the
\* request is answered "Build already in progress" (400), or goes on.
BuildRequest(h) ==
    /\ b_pc[h] = "idle"
    /\ b_requests < MaxBuildRequests
    /\ b_requests' = b_requests + 1
    /\ IF build_status.build_in_progress
       THEN /\ b_rejected' = b_rejected + 1
            /\ UNCHANGED b_pc
       ELSE /\ b_pc' = [b_pc EXCEPT ![h] = "accepted"]
            /\ UNCHANGED b_rejected
    /\ UNCHANGED build_status

\* build_modules, threading.Thread(target=run_build).start() and the
\* response "Build started": the worker exists, it has not run yet.
StartWorker(h) ==
    /\ b_pc[h] = "accepted"
    /\ b_pc' = [b_pc EXCEPT ![h] = "started"]
    /\ UNCHANGED <<build_status, b_requests, b_rejected>>

\* run_build, its first statement and Popen: the worker sets
\* build_in_progress and docker-compose build runs.
RunBuild(h) ==
    /\ b_pc[h] = "started"
    /\ b_pc' = [b_pc EXCEPT ![h] = "building"]
    /\ build_status' = [build_status EXCEPT !.build_in_progress = TRUE]
    /\ UNCHANGED <<b_requests, b_rejected>>

\* run_build, after communicate(): last_built is the time or the error,
\* and the finally clause clears build_in_progress.
BuildDone(h) ==
    /\ b_pc[h] = "building"
    /\ b_pc' = [b_pc EXCEPT ![h] = "idle"]
    /\ \E last_built \in {current_time(now), "Error"} :
          build_status' = [last_built |-> last_built,
                           build_in_progress |-> FALSE]
    /\ UNCHANGED <<b_requests, b_rejected>>

\* ---------------------------------------------------------------- specifications

\* One Recorder and one Poller process, started on a fresh installation.
Next ==
    \/ SaveOpen
    \/ SaveClose
    \/ Poller(1)

Spec == Init /\ [][Next]_vars

\* Recordings left in the folder by a Recorder that has stopped.
Backlog ==
    [f \in Paths |-> IF f \in {format_name(Sec(59)), format_name(Sec(60))}
                     THEN "complete" ELSE "absent"]

\* One Poller process that is killed (or crashes) and is started again, over
\* a backlog of recordings; the classifier finds one species or nothing.
InitRestart ==
    /\ dir = Backlog
    /\ ledgerExists = FALSE
    /\ ledger = <<>>
    /\ classifier = {<<>>, <<Detection("Turdus migratorius")>>}
    /\ RecorderInit
    /\ FetcherInit
    /\ BuildStatusInit
    /\ ComposerInit
    /\ DashboardInit
    /\ PollerInit

NextRestart ==
    \/ Poller(1)
    \/ Restart(1)

SpecRestart == InitRestart /\ [][NextRestart]_vars

\* Two classifier instances (two Poller processes, each with its own
\* csv_lock and processed_files) over the same backlog and the same ledger.
InitWriters ==
    /\ dir = Backlog
    /\ ledgerExists = FALSE
    /\ ledger = <<>>
    /\ classifier = {<<>>, <<Detection("Turdus migratorius")>>}
    /\ RecorderInit
    /\ FetcherInit
    /\ BuildStatusInit
    /\ ComposerInit
    /\ DashboardInit
    /\ PollerInit

NextWriters == \E p \in PollerIds : Poller(p)

SpecWriters == InitWriters /\ [][NextWriters]_vars

\* update_ledger on its own: process_wav_file has parsed the timestamp of
\* some path and holds some detection list; the ledger does not exist yet
\* or already holds lines.
InitLedger ==
    /\ dir = [f \in Paths |-> IF f \in Files THEN "complete" ELSE "absent"]
    /\ \E old \in {<<>>, <<Header>>,
                   <<Header, [kind |-> "row", date |-> 0,
                              start_Time |-> <<0, 0, 0>>,
                              end_Time |-> <<0, 0, 15>>,
                              scientific_name |-> "Corvus corax"]>>} :
          /\ ledger = old
          /\ ledgerExists = (old # <<>>)
    /\ classifier = DetLists
    /\ RecorderInit
    /\ FetcherInit
    /\ BuildStatusInit
    /\ ComposerInit
    /\ DashboardInit
    /\ pc = [p \in PollerIds |-> IF p = 1 THEN "ledger_check" ELSE "poll"]
    /\ files = [p \in PollerIds |-> {}]
    /\ processed_files = [p \in PollerIds |-> {}]
    /\ \E f \in Files :
          /\ wav_file = [p \in PollerIds |-> f]
          /\ timestamp = [p \in PollerIds |-> parse_timestamp(f, now)]
    /\ \E d \in DetLists :
          detections = [p \in PollerIds |-> IF p = 1 THEN d ELSE <<>>]
    /\ file_exists = [p \in PollerIds |-> FALSE]
    /\ csv_lock = [p \in PollerIds |-> FALSE]
    /\ restarts = 0
    /\ life = [p \in PollerIds |-> 0]
    /\ procCount = [p \in PollerIds |-> [f \in Paths |-> 0]]
    /\ readState = [p \in PollerIds |-> "complete"]
    /\ ledgerDone = [p \in PollerIds |-> FALSE]
    /\ removeErr = [p \in PollerIds |-> FALSE]

NextLedger ==
    \/ LedgerCheck(1)
    \/ LedgerOpen(1)
    \/ LedgerWrite(1)

SpecLedger == InitLedger /\ [][NextLedger]_vars

\* The Recorder on its own, started in daylight saving time or in the hour
\* after its end, with any configured buffer size and chunk length.
InitRecorder ==
    /\ dir = [f \in Paths |-> "absent"]
    /\ ledgerExists = FALSE
    /\ ledger = <<>>
    /\ classifier = PollDetLists
    /\ RecorderIdle
    /\ FetcherInit
    /\ BuildStatusInit
    /\ ComposerInit
    /\ DashboardInit
    /\ now \in {Sec(s) : s \in StartSeconds}
    /\ CHUNK_DURATION \in 1..MaxElapsed
    /\ BUFFER_SIZE \in 1..MaxBufferSize
    /\ PollerInit

NextRecorder ==
    \/ RecordChunk
    \/ SaveClose

SpecRecorder == InitRecorder /\ [][NextRecorder]_vars

\* update_ledger of a Poller as the Image Fetcher sees it: under csv_lock
\* the header (when the ledger file did not exist) and the rows of one
\* recording are appended.
UpdateLedger ==
    /\ Len(ledger) < MaxLedger
    /\ \E d \in SeqsUpTo({Detection(s) : s \in SciNames}, 1) :
          ledger' = ledger \o update_ledger(d, Sec(59), ledgerExists)
    /\ ledgerExists' = TRUE
    /\ UNCHANGED <<dir, recVars, pc, files, processed_files, wav_file, timestamp,
                   detections, file_exists, csv_lock, restarts, life, histVars>>

\* The Image Fetcher beside the ledger writes of a Poller.
InitFetcher ==
    /\ dir = [f \in Paths |-> "absent"]
    /\ ledgerExists = FALSE
    /\ ledger = <<>>
    /\ classifier = PollDetLists
    /\ RecorderInit
    /\ FetcherInit
    /\ BuildStatusInit
    /\ ComposerInit
    /\ DashboardInit
    /\ PollerInit

NextFetcher ==
    \/ CheckConnection
    \/ MonitorLedger
    \/ UpdateLedger

SpecFetcher == InitFetcher /\ [][NextFetcher]_vars

\* The Image Fetcher beside one Poller process that works through a backlog
\* and may be killed and started again.
InitFetcherPoller ==
    /\ dir = Backlog
    /\ ledgerExists = FALSE
    /\ ledger = <<>>
    /\ classifier = {<<Detection("Turdus migratorius")>>}
    /\ RecorderInit
    /\ FetcherInit
    /\ BuildStatusInit
    /\ ComposerInit
    /\ DashboardInit
    /\ PollerInit

NextFetcherPoller ==
    \/ CheckConnection
    \/ MonitorLedger
    \/ Poller(1)
    \/ Restart(1)

SpecFetcherPoller == InitFetcherPoller /\ [][NextFetcherPoller]_vars

\* The wall clock advances by one tick.
Tick ==
    /\ now < Sec(100 + MaxElapsed)
    /\ now' = now + 1
    /\ UNCHANGED <<dir, rec_pc, rec_file, saves, wav_data, last_payload,
                   cfgVars, dashVars, buildVars, composerVars, fetchVars, audio_buffer, timestamps, chunks, ledgerExists,
                   ledger, pc, files, processed_files, wav_file, timestamp,
                   detections, file_exists, csv_lock, restarts, life, histVars>>

\* The recordings a Poller may find on its own: a Recorder-made one, one
\* that ends after midnight, and a misnamed .wav file.
ProcessFiles == {FirstFile, MidnightFile, StrayFile}

\* One Poller and one .wav file in the folder, while the wall clock runs;
\* any configured recording length.
InitProcess ==
    /\ \E g \in ProcessFiles :
          dir = [f \in Paths |-> IF f = g THEN "complete" ELSE "absent"]
    /\ ledgerExists = FALSE
    /\ ledger = <<>>
    /\ classifier = PollDetLists
    /\ RecorderIdle
    /\ FetcherInit
    /\ BuildStatusInit
    /\ ComposerInit
    /\ DashboardInit
    /\ now = Sec(100)
    /\ CHUNK_DURATION \in {1, Sec(3)}
    /\ BUFFER_SIZE \in 1..MaxBufferSize
    /\ PollerInit

NextProcess ==
    \/ Tick
    \/ Poller(1)

SpecProcess == InitProcess /\ [][NextProcess]_vars

\* The dashboard alone: a configuration drawn from ModuleConfigs, requests
\* served by the handler threads.

InitDashboard ==
    /\ dir = [f \in Paths |-> "absent"]
    /\ ledgerExists = FALSE
    /\ ledger = <<>>
    /\ classifier = {<<>>}
    /\ RecorderInit
    /\ FetcherInit
    /\ BuildStatusInit
    /\ ComposerInit
    /\ PollerInit
    /\ DashboardIdle
    /\ modules_config \in ModuleConfigs

NextDashboard ==
    \E h \in Handlers :
        /\ \/ Receive(h)
           \/ OpenComposeFile(h)
           \/ DumpComposeFile(h)
           \/ Respond(h)
        /\ UNCHANGED <<dir, ledgerExists, ledger, pollVars, histVars, rec_pc,
                       rec_file, saves, wav_data, last_payload, cfgVars,
                       bufVars, fetchVars, composerVars, buildVars>>

SpecDashboard == InitDashboard /\ [][NextDashboard]_vars

\* docker_composer alone: a configuration drawn from ConfigDatas; no status
\* file, one that is no JSON document, or one that records no build;
\* build_docker_compose and run_docker_compose called in any order while the
\* wall clock runs.

InitComposer ==
    /\ dir = [f \in Paths |-> "absent"]
    /\ ledgerExists = FALSE
    /\ ledger = <<>>
    /\ classifier = {<<>>}
    /\ RecorderIdle
    /\ now = Sec(100)
    /\ CHUNK_DURATION = Sec(3)
    /\ BUFFER_SIZE = 5
    /\ FetcherInit
    /\ BuildStatusInit
    /\ PollerInit
    /\ DashboardInit
    /\ generated_file = NoComposeFile
    /\ status_file \in {NoStatusFile, InvalidStatusFile, UnbuiltStatusFile}
    /\ up_runs = 0
    /\ last_call = "none"
    /\ config_data \in ConfigDatas

Composer ==
    /\ \/ BuildDockerCompose
       \/ RunDockerCompose
    /\ UNCHANGED <<dir, ledgerExists, ledger, pollVars, histVars, rec_pc,
                   rec_file, saves, wav_data, last_payload, cfgVars,
                   bufVars, fetchVars, dashVars, buildVars>>

NextComposer ==
    \/ Composer
    \/ Tick

SpecComposer == InitComposer /\ [][NextComposer]_vars

\* One Recorder and one Poller in the best of environments: the classifier
\* always returns and os.remove fails on a missing path only.  The polling
\* loop never ends, so the Poller takes its next step whenever it has one;
\* the Recorder may stop at any time.

RemoveExisting(p) ==
    /\ Remove(p)
    /\ dir[wav_file[p]] # "absent" => dir'[wav_file[p]] = "absent"

PollerReturns(p) ==
    \/ ListDir(p)
    \/ ForNext(p)
    \/ Analyze(p)
    \/ LedgerCheck(p)
    \/ LedgerOpen(p)
    \/ LedgerWrite(p)
    \/ RemoveExisting(p)
    \/ Add(p)

InitLive ==
    /\ dir = [f \in Paths |-> "absent"]
    /\ ledgerExists = FALSE
    /\ ledger = <<>>
    /\ classifier = {<<Detection("Turdus migratorius")>>}
    /\ RecorderInit
    /\ FetcherInit
    /\ BuildStatusInit
    /\ ComposerInit
    /\ DashboardInit
    /\ PollerInit

NextLive ==
    \/ SaveOpen
    \/ SaveClose
    \/ PollerReturns(1)

SpecLive == InitLive /\ [][NextLive]_vars /\ WF_vars(PollerReturns(1))

\* One Recorder and one Poller that may crash and be started again.

NextRecreate ==
    \/ SaveOpen
    \/ SaveClose
    \/ Poller(1)
    \/ Restart(1)

SpecRecreate == InitLive /\ [][NextRecreate]_vars

\* The build-status dashboard alone: build requests on the handler
\* threads of the Flask server, each accepted request with its worker.

InitBuildStatus ==
    /\ dir = [f \in Paths |-> "absent"]
    /\ ledgerExists = FALSE
    /\ ledger = <<>>
    /\ classifier = {<<>>}
    /\ RecorderInit
    /\ FetcherInit
    /\ ComposerInit
    /\ DashboardInit
    /\ PollerInit
    /\ BuildStatusInit

NextBuildStatus ==
    \E h \in Handlers :
        /\ \/ BuildRequest(h)
           \/ StartWorker(h)
           \/ RunBuild(h)
           \/ BuildDone(h)
        /\ UNCHANGED <<dir, ledgerExists, ledger, pollVars, histVars,
                       rec_pc, rec_file, saves, wav_data, last_payload,
                       cfgVars, bufVars, fetchVars, dashVars, composerVars>>

SpecBuildStatus == InitBuildStatus /\ [][NextBuildStatus]_vars

\* ---------------------------------------------------------------- properties

HeaderCount == Cardinality({i \in DOMAIN ledger : IsHeader(ledger[i])})

\* Ledger rows that carry the timestamp of path f.
RowsOf(f) ==
    {i \in DOMAIN ledger :
        /\ IsRow(ledger[i])
        /\ ledger[i].date = f[1]
        /\ ledger[i].start_Time = <<f[2], f[3], f[4]>>}

HasValid(D) == \E i \in DOMAIN D : D[i].scientific_name # ""

\* Index of the first detection with a non-empty scientific name.
FirstValid(D) ==
    CHOOSE i \in DOMAIN D :
        /\ D[i].scientific_name # ""
        /\ \A j \in 1..(i - 1) : D[j].scientific_name = ""

\* The step in which process p leaves the with block of update_ledger.
Wrote(p) == pc[p] = "ledger_write" /\ pc'[p] # "ledger_write" /\ life'[p] = life[p]

\* The step in which process p leaves the try/except around os.remove.
Removed(p) == pc[p] = "remove" /\ pc'[p] # "remove" /\ life'[p] = life[p]

\* The step in which process p leaves processed_files.add.
AddedStep(p) == pc[p] = "add" /\ pc'[p] # "add" /\ life'[p] = life[p]

\* The rows (header excluded) a step appends to the ledger.
AppendedRows == SelectSeq(SubSeq(ledger', Len(ledger) + 1, Len(ledger')), IsRow)

\* C1: whenever the detection list holds a detection with a non-empty
\* scientific name, update_ledger appends exactly one row, the row of the
\* first such detection.
C1_ExactlyOneRowFirstValid ==
    [][\A p \in PollerIds :
         (Wrote(p) /\ HasValid(detections[p])) =>
            AppendedRows = <<Row(timestamp[p],
                                 detections[p][FirstValid(detections[p])])>>]_vars

\* C2: a single Poller process never has more than one ledger row for any
\* one recording.
C2_AtMostOneRowPerFile ==
    \A f \in Files : Cardinality(RowsOf(f)) <= 1

C4_EmptyDetections ==
    [][\A p \in PollerIds :
         /\ (Wrote(p) /\ detections[p] = <<>>) =>
               (AppendedRows = <<>> /\ pc'[p] = "remove")
         /\ (Removed(p) /\ detections[p] = <<>>) =>
               /\ ledgerDone[p]
               /\ RowsOf(wav_file[p]) = {}
               /\ removeErr'[p] \/ dir'[wav_file[p]] = "absent"]_vars

\* C4 witness: a file with no detections has been processed and deleted,
\* and the ledger holds no row for it.
C4_Witness ==
    /\ pc[1] = "add"
    /\ detections[1] = <<>>
    /\ ledgerDone[1]
    /\ ~removeErr[1]
    /\ dir[wav_file[1]] = "absent"
    /\ RowsOf(wav_file[1]) = {}
    /\ ledger = <<Header>>

\* C5: with one Poller at a time, across restarts, a header line is only
\* ever line 1 of the ledger (so there is at most one), and a ledger file
\* that does not exist holds nothing.
C5_HeaderOnceFirst ==
    /\ \A i \in DOMAIN ledger : IsHeader(ledger[i]) => i = 1
    /\ HeaderCount <= 1
    /\ ~ledgerExists => ledger = <<>>

\* C5 witness: after a restart the same filename has been processed again:
\* two rows for it, one header, on line 1.
C5_Witness ==
    /\ restarts >= 1
    /\ Len(ledger) >= 3
    /\ IsHeader(ledger[1])
    /\ HeaderCount = 1
    /\ \E f \in Files : Cardinality(RowsOf(f)) >= 2

\* C6: with two writers the header check, the header write and the rows are
\* one atomic unit: a writer that found no ledger file still finds it empty
\* when it writes its header, and the header is never written twice.
C6_AtomicHeaderAndRows ==
    /\ \A p \in PollerIds :
          (pc[p] = "ledger_write" /\ ~file_exists[p]) => ledger = <<>>
    /\ HeaderCount <= 1

\* C7: the classifier is only ever given a file the Recorder has finished
\* writing.
C7_OnlyCompleteFilesRead ==
    \A p \in PollerIds :
        pc[p] \in {"ledger_check", "ledger_open", "ledger_write", "remove", "add"}
            => readState[p] = "complete"

\* C8: within one Poller lifetime process_wav_file is entered at most once
\* for any path.
C8_ProcessedAtMostOnce ==
    \A p \in PollerIds : \A f \in Files : procCount[p][f] <= 1

\* C8 witness: the deletion of a processed path failed and the path is in
\* the listing of a later poll, still processed once.
C8_Witness ==
    \E f \in Files :
        /\ pc[1] = "loop"
        /\ f \in files[1]
        /\ f \in processed_files[1]
        /\ wav_file[1] = f
        /\ removeErr[1]
        /\ procCount[1][f] = 1

\* C9 as stated: when classification of a path begins the path is already
\* in the claimed set.
C9_ClaimedBeforeClassify ==
    \A p \in PollerIds : pc[p] = "analyze" => wav_file[p] \in processed_files[p]

\* C9 amended: a path is in the claimed set only once process_wav_file has
\* returned for it (classified, ledger written, deletion attempted); from
\* the start of classification up to processed_files.add it is not in it.
C9_ClaimedAfterProcess ==
    \A p \in PollerIds :
        /\ pc[p] \in Processing \cup {"add"} => wav_file[p] \notin processed_files[p]
        /\ \A f \in processed_files[p] : procCount[p][f] = 1

\* C9 witness: a path has been classified and written to the ledger, its
\* deletion is next, and it is not claimed yet.
C9_Witness ==
    /\ pc[1] = "remove"
    /\ ledgerDone[1]
    /\ Cardinality(RowsOf(wav_file[1])) >= 1
    /\ wav_file[1] \notin processed_files[1]

\* C10: os.remove is attempted only after update_ledger has returned; a
\* failing os.remove is swallowed (the process goes on to
\* processed_files.add), the path is added to the claimed set, and the loop
\* continues with the rest of the listing.
C10_DeleteAfterLedgerFailureSwallowed ==
    [][\A p \in PollerIds :
         /\ Removed(p) =>
               /\ ledgerDone[p]
               /\ ~csv_lock[p]
               /\ pc'[p] = "add"
         /\ AddedStep(p) =>
               /\ processed_files'[p] = processed_files[p] \cup {wav_file[p]}
               /\ pc'[p] = "loop"
               /\ files'[p] = files[p]
               /\ ledger' = ledger]_vars

\* C10 witness: the deletion failed, the path is claimed all the same and
\* the loop is about to take the next path of the listing.
C10_Witness ==
    /\ pc[1] = "loop"
    /\ removeErr[1]
    /\ wav_file[1] \in processed_files[1]
    /\ dir[wav_file[1]] # "absent"
    /\ files[1] # {}
    /\ wav_file[1] \notin files[1]

\* The step in which analyze_recording raises in process p.
Raised(p) == pc[p] = "analyze" /\ pc'[p] = "crashed"

\* C11: when the classifier raises for one file the Poller keeps running:
\* the error is caught at the call site and the polling loop goes on, so no
\* Poller process is ever ended by a classifier exception.
C11_PollerSurvivesClassifierError ==
    \A p \in PollerIds : pc[p] # "crashed"

\* C12: when analyze_recording raises, the step changes nothing for the
\* file: the recordings folder, the ledger (rows and header) and the claimed
\* set are as before; afterwards the path is not in the claimed set, which
\* no longer changes, and update_ledger has not run for it.
C12_RaiseLeavesFileUntouched ==
    [][\A p \in PollerIds :
         /\ Raised(p) =>
               /\ dir' = dir
               /\ ledger' = ledger
               /\ ledgerExists' = ledgerExists
               /\ processed_files' = processed_files
         /\ pc[p] = "crashed" =>
               /\ wav_file[p] \notin processed_files[p]
               /\ ~ledgerDone[p]
               /\ processed_files' = processed_files]_vars

\* C12 witness: the classifier raised on a complete recording; the file is
\* still in the folder, the ledger was never created and nothing is claimed.
C12_Witness ==
    /\ pc[1] = "crashed"
    /\ dir[wav_file[1]] = "complete"
    /\ ~ledgerExists
    /\ ledger = <<>>
    /\ processed_files[1] = {}

\* C20: the ledger is append-only: every step leaves the lines already in
\* the ledger in place, so each ledger state is a prefix of the next; lines
\* are added only by the update_ledger of a Poller, at the end, and the rows
\* added are rows of the file that Poller is processing, so the order of the
\* rows is the order in which the files were processed.
C20_LedgerAppendOnly ==
    [][/\ Len(ledger') >= Len(ledger)
       /\ SubSeq(ledger', 1, Len(ledger)) = ledger
       /\ ledger' # ledger =>
             \E p \in PollerIds :
                /\ Wrote(p)
                /\ \A i \in DOMAIN AppendedRows :
                      \E d \in DOMAIN detections[p] :
                         AppendedRows[i] = Row(timestamp[p], detections[p][d])]_vars

\* C20 witness: the later recording was processed first; its row stands
\* before the row of the earlier recording.
C20_Witness ==
    \E i, j \in DOMAIN ledger :
        /\ i < j
        /\ i \in RowsOf(format_name(Sec(60)))
        /\ j \in RowsOf(format_name(Sec(59)))

\* The step in which process p starts process_wav_file on some path.
Started(p) == pc[p] = "loop" /\ pc'[p] = "analyze"

\* C18: a file whose name does not parse as YYYYMMDD_HHMMSS does not stop the
\* Poller: process_wav_file takes the wall-clock time of that moment as the
\* timestamp and goes on to the classifier; the ledger lines written for the
\* file are those update_ledger writes for that timestamp, and the file is
\* deleted afterwards (unless os.remove itself fails), as for any file.
C18_UnparseableNameFallsBack ==
    [][\A p \in PollerIds :
         /\ Started(p) /\ ~WellFormed(wav_file'[p]) =>
               timestamp'[p] = now
         /\ Wrote(p) /\ ~WellFormed(wav_file[p]) =>
               /\ ledger' = ledger \o update_ledger(detections[p], timestamp[p],
                                                   file_exists[p])
               /\ pc'[p] = "remove"
         /\ Removed(p) /\ ~WellFormed(wav_file[p]) =>
               /\ ledgerDone[p]
               /\ pc'[p] = "add"
               /\ removeErr'[p] \/ dir'[wav_file[p]] = "absent"]_vars

\* C18 witness: the misnamed file was classified, a row with the wall-clock
\* time of the parse was written, and the file is deleted; the clock has
\* moved on since.
C18_Witness ==
    /\ pc[1] = "add"
    /\ wav_file[1] = StrayFile
    /\ dir[StrayFile] = "absent"
    /\ timestamp[1] < now
    /\ Len(ledger) = 2
    /\ ledger[2] = Row(timestamp[1], Detection("Turdus migratorius"))

\* The naive local date-time process_wav_file derives from a well-formed name.
NameTime(f) == fromtimestamp(name_timestamp(f))

\* C19: every row written for a well-named file carries the date and
\* start_Time of the timestamp derived from the name, and as end_Time the
\* time of day CHUNK_DURATION * BUFFER_SIZE later (whole seconds, wrapping at
\* midnight), whatever the wall clock says when the row is written; all rows
\* written for the file agree in date, start_Time and end_Time.
C19_RowTimesFromName ==
    [][\A p \in PollerIds :
         Wrote(p) /\ WellFormed(wav_file[p]) =>
            /\ \A i \in DOMAIN AppendedRows :
                  /\ AppendedRows[i].date = date_str(NameTime(wav_file[p]))
                  /\ AppendedRows[i].start_Time = time_str(NameTime(wav_file[p]))
                  /\ AppendedRows[i].end_Time =
                        time_str(NameTime(wav_file[p]) + CHUNK_DURATION * BUFFER_SIZE)
            /\ \A i, j \in DOMAIN AppendedRows :
                  /\ AppendedRows[i].date = AppendedRows[j].date
                  /\ AppendedRows[i].start_Time = AppendedRows[j].start_Time
                  /\ AppendedRows[i].end_Time = AppendedRows[j].end_Time]_vars

\* C19 witness: two rows were written for the recording named 23:59:58,
\* after the wall clock had advanced; their end_Time has wrapped past
\* midnight.
C19_Witness ==
    /\ wav_file[1] = MidnightFile
    /\ ledgerDone[1]
    /\ now > Sec(100)
    /\ Len(ledger) = 3
    /\ ledger[2].start_Time = <<23, 59, 58>>
    /\ ledger[2].end_Time[1] = 0
    /\ ledger[3].end_Time = ledger[2].end_Time

Min(a, b) == IF a <= b THEN a ELSE b

\* The step in which the Recorder loop appends a chunk.
Appended == chunks' = chunks + 1

\* The step in which save_wav_file returns.
Saved == rec_pc = "save" /\ rec_pc' = "record"

\* C13: after N chunks the buffer and the timestamps list both have length
\* min(N, BUFFER_SIZE); the buffer holds the last min(N, BUFFER_SIZE) chunks
\* captured, oldest first, and the stored times increase.
C13_SlidingWindow ==
    /\ Len(audio_buffer) = Min(chunks, BUFFER_SIZE)
    /\ Len(timestamps) = Len(audio_buffer)
    /\ \A i \in DOMAIN audio_buffer :
          audio_buffer[i] = Chunk(chunks - Len(audio_buffer) + i)
    /\ \A i, j \in DOMAIN timestamps : i < j => timestamps[i] < timestamps[j]
    /\ timestamps # <<>> => timestamps[Len(timestamps)] = now

\* C13 witness: more chunks than the buffer holds were captured and the
\* buffer holds more than one chunk.
C13_Witness ==
    /\ chunks > BUFFER_SIZE
    /\ BUFFER_SIZE >= 2
    /\ audio_buffer[1] = Chunk(chunks - BUFFER_SIZE + 1)

\* The part of a time below one second dropped.
WholeSecond(ts) == Sec(ts \div TicksPerSecond)

\* The chunks a flush is made of when `total` chunks have been captured.
WindowChunks(total) ==
    [i \in 1..BUFFER_SIZE |-> Chunk(total - BUFFER_SIZE + i)]

C15_FlushKeepsWindow ==
    [][/\ Saved => audio_buffer' = audio_buffer /\ timestamps' = timestamps
       /\ Appended /\ Len(audio_buffer) = BUFFER_SIZE => rec_pc' = "save"
       /\ Saved /\ last_payload # <<>> =>
             /\ Len(last_payload') = Len(np_concatenate(WindowChunks(chunks)))
             /\ SubSeq(last_payload', 1, Len(last_payload') - Len(Chunk(chunks)))
                   = SubSeq(last_payload, Len(Chunk(chunks)) + 1, Len(last_payload))]_vars

\* C15 witness: two flushes of more than one chunk each have happened and
\* the buffer is still full.
C15_Witness ==
    /\ saves >= 2
    /\ BUFFER_SIZE >= 2
    /\ rec_pc = "record"
    /\ Len(audio_buffer) = BUFFER_SIZE
    /\ Head(last_payload) = Head(Chunk(chunks - BUFFER_SIZE + 1))

\* C16: the name the Recorder has just given a file parses in the Poller,
\* and the parsed timestamp is the time the Recorder used for the name with
\* the part below one second dropped.
C16_NameRoundTrip ==
    rec_pc = "save" =>
        /\ WellFormed(rec_file)
        /\ parse_timestamp(rec_file, now) = WholeSecond(start_timestamp(timestamps))

\* C17: a recording that has been written is not written again: no step
\* reopens a complete file or changes its content.
C17_RecordingNeverRewritten ==
    [][\A f \in Paths :
         dir[f] = "complete" =>
            /\ dir'[f] # "partial"
            /\ wav_data'[f] = wav_data[f]]_vars

\* The step in which process p is started again.
Restarted(p) == life'[p] # life[p]

\* C21: a restarted Poller starts with an empty claimed set and leaves the
\* recordings folder and the ledger as they were; its listing holds every
\* .wav file present, and every listed file that is not in the (new) claimed
\* set goes to process_wav_file, whether or not an earlier process had
\* processed it.
C21_RestartForgetsClaims ==
    [][\A p \in PollerIds :
         /\ Restarted(p) =>
               /\ processed_files'[p] = {}
               /\ pc'[p] = "poll"
               /\ dir' = dir
               /\ ledger' = ledger
         /\ pc[p] = "poll" /\ pc'[p] = "loop" =>
               files'[p] = {f \in Paths : dir[f] # "absent"}
         /\ pc[p] = "loop" /\ ~Restarted(p) =>
               \A f \in files[p] \ files'[p] :
                  f \notin processed_files[p] =>
                     pc'[p] = "analyze" /\ wav_file'[p] = f]_vars

\* C21 witness: a recording whose deletion failed before the restart has
\* been processed again by the new process and has two rows in the ledger.
C21_Witness ==
    \E f \in Files :
        /\ life[1] = 1
        /\ pc[1] = "add"
        /\ wav_file[1] = f
        /\ procCount[1][f] = 1
        /\ f \notin processed_files[1]
        /\ Cardinality(RowsOf(f)) = 2

\* The step of one iteration of the monitor_ledger loop, and such a step in
\* which the ledger was read.
Polled == polls' = polls + 1
PolledLedger == Polled /\ ~(issued' = None /\ raised')

\* The rows of the ledger, and the scientific name of the last of them.
LedgerRows == SelectSeq(ledger, IsRow)
LastRowName == LedgerRows[Len(LedgerRows)].scientific_name

\* C22: a poll that reads the ledger issues a fetch if and only if the
\* ledger has at least one row, the last row's scientific_name is not empty
\* and it is not the name remembered as last fetched; the fetch is for that
\* name; a last row with an empty name leaves the remembered name unchanged.
C22_FetchIffLastRowChanged ==
    [][PolledLedger =>
          /\ issued' # None <=>
                /\ LedgerRows # <<>>
                /\ LastRowName # ""
                /\ LastRowName # last_processed_scientific_name
          /\ issued' # None => issued' = LastRowName
          /\ LedgerRows # <<>> /\ LastRowName = "" =>
                last_processed_scientific_name' = last_processed_scientific_name]_vars

\* C23: the image file and the remembered name never disagree: once a name
\* is remembered as last fetched, the image file holds the image of that
\* name.
C23_ImageMatchesRememberedName ==
    last_processed_scientific_name # None =>
        image = last_processed_scientific_name

\* A poll in which something failed: an exception was caught, or the fetch
\* ended without an image saved.
Failed == Polled /\ (raised' \/ (issued' # None /\ ~saved'))

C25_FailedFetchRetried ==
    [][/\ PolledLedger
       /\ issued # None
       /\ ~saved
       /\ LedgerRows # <<>>
       /\ LastRowName = issued
       => issued' = issued]_vars

\* C26: check_internet_connection is called once, before the first poll;
\* a Fetcher that found no connection has read no ledger and fetched
\* nothing; a polling Fetcher has made the one check.
C26_ConnectivityCheckedOnce ==
    /\ conn_checks <= 1
    /\ fetcher_pc = "start" => conn_checks = 0 /\ polls = 0
    /\ fetcher_pc = "poll" => conn_checks = 1
    /\ fetcher_pc = "exited" =>
          /\ conn_checks = 1
          /\ polls = 0
          /\ issued = None
          /\ image = None
          /\ last_processed_scientific_name = None

\* C26 witness: the Fetcher has exited after the failed check while the
\* ledger names a species.
C26_Witness ==
    /\ fetcher_pc = "exited"
    /\ LedgerRows # <<>>
    /\ LastRowName = "Corvus corax"

\* The module names of a list.
Selected(selected) == {selected[i] : i \in 1..Len(selected)}

\* C27: the manifest generate_compose returns for a request has as its
\* services exactly the selected modules whose configuration entry has
\* available = true; unavailable, unknown and unselected modules are left
\* out.
C27_ServicesAreSelectedAvailable ==
    \A h \in Handlers :
        h_pc[h] # "idle" =>
            compose_config[h].services =
                {m \in Modules : /\ m \in Selected(selected_modules[h])
                                 /\ modules_config[m] = "true"}

\* Reached: both modules selected, only "birdnet" available, and the
\* manifest holds the service "birdnet" only.
C27_Witness ==
    \E h \in Handlers :
        /\ h_pc[h] # "idle"
        /\ selected_modules[h] = <<"birdnet", "recorder">>
        /\ modules_config["birdnet"] = "true"
        /\ modules_config["recorder"] # "true"
        /\ compose_config[h].services = {"birdnet"}

\* No handler is between the receipt of its request and the end of its
\* write of the manifest.
Quiescent == \A h \in Handlers : h_pc[h] \in {"idle", "written"}

\* C28: once every received request has written its manifest, the file
\* log/current-docker-compose.yml holds generate_compose of the module list
\* of the request received last.
C28_ManifestMatchesLastRequest ==
    (requests > 0 /\ Quiescent) =>
        compose_file =
            ComposeFile("written", generate_compose(last_request, modules_config))

\* C29: after build_docker_compose the manifest's services are exactly the
\* configured modules whose system_type equals MACHINE_TYPE up to letter
\* case and that are available and in use, and the status file records
\* build = true, run = false, run date 'NOT RUN', whatever it held before.
C29_BuildManifestAndStatus ==
    last_call = "build" =>
        /\ generated_file.state = "written"
        /\ generated_file.doc.services =
               {m \in Modules :
                   /\ lower(config_data.modules[m].system_type)
                          = lower(config_data.MACHINE_TYPE)
                   /\ config_data.modules[m].available
                   /\ config_data.modules[m].using}
        /\ status_file.state = "json"
        /\ status_file.build
        /\ ~status_file.run
        /\ status_file.run_date = "NOT RUN"

\* Reached: a build after a recorded run; "birdnet" is configured for "Pi"
\* on a machine of type "pi" and is the only service, "recorder" being
\* configured for another machine type.
C29_Witness ==
    /\ last_call = "build"
    /\ up_runs > 0
    /\ config_data.MACHINE_TYPE = "pi"
    /\ config_data.modules["birdnet"] =
           [system_type |-> "Pi", available |-> TRUE, using |-> TRUE]
    /\ config_data.modules["recorder"] =
           [system_type |-> "mac-m", available |-> TRUE, using |-> TRUE]
    /\ generated_file.doc.services = {"birdnet"}
    /\ ~status_file.run

\* C30: a call of run_docker_compose that finds the status file missing,
\* not a JSON document or without build = true leaves the status file as
\* it is and executes no docker-compose command; docker-compose up is
\* executed only when the status file records a build.
C30_RunNeedsRecordedBuild ==
    [][/\ (last_call' = "run" /\ ~(status_file.state = "json" /\ status_file.build))
            => (status_file' = status_file /\ up_runs' = up_runs)
       /\ up_runs' # up_runs
            => (status_file.state = "json" /\ status_file.build)]_vars

\* Reached: run_docker_compose was called on a status file that is no JSON
\* document; nothing was executed.
C30_Witness ==
    /\ last_call = "run"
    /\ status_file.state = "invalid"
    /\ up_runs = 0

\* C31: the timestamp appended with a chunk is the time the capture of
\* that chunk started.  record_audio blocks for at least CHUNK_DURATION, so
\* the capture started no later than CHUNK_DURATION before it returned.
C31_TimestampIsCaptureStart ==
    [][chunks' = chunks + 1 =>
          timestamps'[Len(timestamps')] + CHUNK_DURATION <= now']_vars

\* C32: with a classifier that always returns and a Poller that keeps
\* polling, every recording the Recorder has finished is eventually taken
\* through process_wav_file by the Poller and removed (removals succeed in
\* SpecLive, and only the Poller removes).
C32_FinishedFileEventuallyProcessed ==
    \A f \in Files : (dir[f] = "complete") ~> (dir[f] = "absent")

\* C33: while a path is in the claimed set of a running Poller, that Poller
\* does not take it into process_wav_file and the path does not leave the
\* recordings folder, whatever the Recorder has written under it since.
C33_ClaimedPathNeverProcessed ==
    [][\A f \in Files :
          (f \in processed_files[1] /\ life'[1] = life[1]) =>
              /\ procCount'[1][f] = procCount[1][f]
              /\ ~(pc'[1] = "analyze" /\ pc[1] # "analyze" /\ wav_file'[1] = f)
              /\ (dir[f] # "absent" => dir'[f] # "absent")]_vars

\* Reached: the Poller has processed and removed a recording, the Recorder
\* has finished a new one under the same name, and the Poller is polling
\* with that path in its claimed set.
C33_Witness ==
    \E f \in Files :
        /\ f \in processed_files[1]
        /\ wav_file[1] = f
        /\ ~removeErr[1]
        /\ pc[1] = "loop"
        /\ f \in files[1]
        /\ dir[f] = "complete"

\* The scientific names of the rows in front of the last row.
EarlierRowNames ==
    {LedgerRows[i].scientific_name : i \in 1..(Len(LedgerRows) - 1)}

\* C34: a poll fetches for no species but the one of the ledger's last row,
\* and the image file changes to no other species: a species named only by
\* rows in front of the last row is neither fetched nor made the image.
C34_OnlyLastRowFetched ==
    [][Polled =>
          /\ issued' # None => (LedgerRows # <<>> /\ issued' = LastRowName)
          /\ image' # image => (LedgerRows # <<>> /\ image' = LastRowName)
          /\ \A s \in EarlierRowNames :
                 (LedgerRows # <<>> /\ s # LastRowName) =>
                     (issued' # s /\ (image' = s => image = s))]_vars

\* Reached: the ledger got rows for two species before the first poll; the
\* poll fetched the species of the last row and saved its image.
C34_Witness ==
    /\ polls = 1
    /\ Len(LedgerRows) >= 2
    /\ "Turdus migratorius" \in EarlierRowNames
    /\ LastRowName = "Corvus corax"
    /\ issued = "Corvus corax"
    /\ image = "Corvus corax"
    /\ last_processed_scientific_name = "Corvus corax"

\* The build workers that exist: started by a request and not yet ended.
BuildWorkers == {h \in Handlers : b_pc[h] \in {"started", "building"}}

\* C35: at most one build worker exists at a time: a build request that
\* arrives while a worker exists starts no second one.
C35_OneBuildWorker == Cardinality(BuildWorkers) <= 1

\* The step in which the docker-compose command of handler h is executed
\* and reads the manifest.
Executed(h) == h_pc[h] = "written" /\ h_pc'[h] = "idle"

\* C36: the docker-compose build of a build request reads the manifest that
\* request generated: log/current-docker-compose.yml is not replaced between
\* the handler's write and the worker's command.
C36_BuildReadsOwnManifest ==
    [][\A h \in Handlers :
          (Executed(h) /\ h_kind[h] = "build") =>
              compose_file = ComposeFile("written", compose_config[h])]_vars

\* The command line of the request of handler h, and the service names on
\* a command line: what follows "build", or "up" "-d".
Command(h) ==
    IF h_kind[h] = "build" THEN build_cmd(selected_modules[h])
    ELSE run_cmd(selected_modules[h])
ServiceArgs(cmd) ==
    LET first == IF cmd[4] = "build" THEN 5 ELSE 6
    IN  {cmd[i] : i \in first..Len(cmd)}

\* C37: every service name on the command line of a request is a service
\* of the manifest the request generated and wrote.
C37_CommandServicesInManifest ==
    \A h \in Handlers :
        h_pc[h] = "written" =>
            ServiceArgs(Command(h)) \subseteq compose_config[h].services

\* C38: the status file records a run only if docker-compose up was
\* executed on an existing manifest.
C38_RunRecordedOnlyIfExecuted ==
    (status_file.state = "json" /\ status_file.run) => up_runs > 0

\* C39: in the status file a recorded run implies a recorded build, the
\* run date is 'NOT RUN' exactly when no run is recorded, and no run is
\* recorded after a build until run_docker_compose is called again.
C39_StatusConsistent ==
    status_file.state = "json" =>
        /\ status_file.run => status_file.build
        /\ status_file.run_date = "NOT RUN" <=> ~status_file.run
        /\ status_file.run => last_call = "run"
        /\ last_call = "build" => (status_file.build /\ ~status_file.run)

\* Reached: a run recorded after the second docker-compose up, in a later
\* second than the build it follows.
C39_Witness ==
    /\ status_file.state = "json"
    /\ status_file.run
    /\ status_file.build
    /\ status_file.run_date # status_file.build_date
    /\ up_runs = 2

====
